---- MODULE Spec2Model ----
(***************************************************************************)
(* Segmentation-and-vectorization engine of polygonize_indices.py.        *)
(*                                                                         *)
(* Rasters are grids of integer samples (plus a NaN sample); areas are in  *)
(* square metres (min_area_ha * 10000 is min_area_m2), so that every       *)
(* quantity the code computes in floating point is an exact integer or an  *)
(* exact quotient of integers here.                                        *)
(***************************************************************************)
EXTENDS Integers, Sequences, FiniteSets, TLC

\* ---------------------------------------------------------------- bounds
MaxVal == 2          \* finite raster samples and thresholds are 0..MaxVal
MaxRadius == 1       \* morphology radii are 0..MaxRadius
MaxCols == 2         \* widest grid of the per-layer pipeline
MaxAreaM2 == 3       \* min_area_m2 and max_area_m2 are 0..MaxAreaM2
MaxOpenRadius == 3   \* open radii compared with one another are 0..MaxOpenRadius

\* A sample that is not a number; every comparison with it is false.
NaN == MaxVal + 1
Values == 0..NaN

Null == "null"

\* ------------------------------------------------------------ grid basics
Cells(shape) == (1..shape[1]) \X (1..shape[2])

ShapeOf(g) ==
    LET rows == {c[1] : c \in DOMAIN g}
        cols == {c[2] : c \in DOMAIN g}
    IN <<Cardinality(rows), Cardinality(cols)>>

Ones(mask) == {c \in DOMAIN mask : mask[c]}

Count(mask) == Cardinality(Ones(mask))

Abs(x) == IF x < 0 THEN -x ELSE x

\* row-major rank of a cell, the order numpy and the tracers scan a grid in
Rank(c, shape) == (c[1] - 1) * shape[2] + c[2]

\* ------------------------------------------------------------ Mask Builder
\* faulty variant of GE: the lower bound taken as exclusive
GE_Strict(v, x) == v # NaN /\ v > x

\* numpy comparison of one float sample with a scalar bound
GE(v, x) == v # NaN /\ v >= x
LE(v, x) == v # NaN /\ v <= x

\* (arr >= val_range[0]) & (arr <= val_range[1])
ThresholdMask(arr, val_range) ==
    [c \in DOMAIN arr |-> GE(arr[c], val_range[1]) /\ LE(arr[c], val_range[2])]

\* ----------------------------------------------------- Morphological Cleaner
\* disk(radius): offsets (dy, dx) of the cells of the structuring element
disk(radius) ==
    {d \in (-radius..radius) \X (-radius..radius) :
        d[1] * d[1] + d[2] * d[2] <= radius * radius}

\* scipy binary_erosion, border_value = 0: a cell outside the grid is 0
BinaryErosion(mask, structure) ==
    [c \in DOMAIN mask |->
        \A d \in structure :
            LET q == <<c[1] + d[1], c[2] + d[2]>>
            IN q \in DOMAIN mask /\ mask[q]]

\* scipy binary_dilation, border_value = 0, output cropped to the grid
BinaryDilation(mask, structure) ==
    [c \in DOMAIN mask |->
        \E d \in structure :
            LET q == <<c[1] - d[1], c[2] - d[2]>>
            IN q \in DOMAIN mask /\ mask[q]]

\* faulty variant of BinaryOpening: the erosion left out
BinaryOpening_DilateOnly(mask, structure) == BinaryDilation(mask, structure)

BinaryOpening(mask, structure) ==
    BinaryDilation(BinaryErosion(mask, structure), structure)

BinaryClosing(mask, structure) ==
    BinaryErosion(BinaryDilation(mask, structure), structure)

binary_morphology(mask, open_radius, close_radius) ==
    LET opened == IF open_radius > 0
                  THEN BinaryOpening(mask, disk(open_radius))
                  ELSE mask
    IN IF close_radius > 0
       THEN BinaryClosing(opened, disk(close_radius))
       ELSE opened

\* ------------------------------------------------ Region Labeler, Size Filter
\* faulty variant of LabelStructure: the full 3x3 neighbourhood (8-connectivity)
LabelStructure_Eight == (-1..1) \X (-1..1)

\* ndi.label(mask) is called without a structure argument: scipy then uses
\* generate_binary_structure(2, 1), the centre and its four edge neighbours.
LabelStructure == {<<0, 0>>, <<-1, 0>>, <<1, 0>>, <<0, -1>>, <<0, 1>>}

\* the cells of `ones` reachable from S through offsets of `structure`
RECURSIVE Grow(_, _, _)
Grow(S, ones, structure) ==
    LET T == S \cup {c \in ones :
                        \E s \in S : <<c[1] - s[1], c[2] - s[2]>> \in structure}
    IN IF T = S THEN S ELSE Grow(T, ones, structure)

\* the connected regions of `ones`, in row-major order of their first cell
RECURSIVE RegionsOf(_, _, _)
RegionsOf(ones, shape, structure) ==
    IF ones = {} THEN <<>>
    ELSE LET first == CHOOSE c \in ones :
                        \A d \in ones : Rank(c, shape) <= Rank(d, shape)
             R == Grow({first}, ones, structure)
         IN <<R>> \o RegionsOf(ones \ R, shape, structure)

\* labeled, n = ndi.label(mask)
Label(mask) ==
    LET regs == RegionsOf(Ones(mask), ShapeOf(mask), LabelStructure)
    IN [labeled |-> [c \in DOMAIN mask |->
                        IF mask[c]
                        THEN CHOOSE i \in 1..Len(regs) : c \in regs[i]
                        ELSE 0],
        n |-> Len(regs)]

\* abs(meta["transform"].a) * abs(meta["transform"].e)
PixelAreaM2(meta) == Abs(meta.transform.a) * Abs(meta.transform.e)

\* faulty variant of MinPixels: the quotient rounded up
MinPixels_Ceil(proc, meta) ==
    (proc.min_area_m2 + PixelAreaM2(meta) - 1) \div PixelAreaM2(meta)

\* int((proc["min_area_ha"] * 10000) / pixel_area_m2): int() truncates, and
\* the quotient is never negative here
MinPixels(proc, meta) == proc.min_area_m2 \div PixelAreaM2(meta)

\* region = (labeled == i); region.sum()
RegionSum(labeled, i) == Cardinality({c \in DOMAIN labeled : labeled[c] = i})

\* faulty variant of SizeFilter: a region of exactly min_pixels is zeroed too
SizeFilter_Strict(labeled, n, min_pixels) ==
    [c \in DOMAIN labeled |->
        \E i \in 1..n : labeled[c] = i /\ RegionSum(labeled, i) > min_pixels]

\* the loop over range(1, n + 1) that copies the regions kept into `clean`
SizeFilter(labeled, n, min_pixels) ==
    [c \in DOMAIN labeled |->
        \E i \in 1..n : labeled[c] = i /\ RegionSum(labeled, i) >= min_pixels]

\* ---------------------------------------------------------------- Vectorizer
\* rasterio.features.shapes is called without connectivity: its default is 4
ShapesConnectivity == 4

\* faulty variant of ShapesStructure: polygons traced under 8-connectivity
ShapesStructure_Eight(connectivity) == (-1..1) \X (-1..1)

ShapesStructure(connectivity) ==
    IF connectivity = 8
    THEN (-1..1) \X (-1..1)
    ELSE {<<0, 0>>, <<-1, 0>>, <<1, 0>>, <<0, -1>>, <<0, 1>>}

\* One polygon per region of 1-valued cells; a polygon is the set of cells it
\* covers together with its area in the units of the transform.
raster_to_polygons(mask, meta) ==
    LET regs == RegionsOf(Ones(mask), ShapeOf(mask),
                          ShapesStructure(ShapesConnectivity))
    IN [crs |-> meta.crs,
        columns |-> {"geometry"},
        rows |-> [i \in 1..Len(regs) |->
                    [cells |-> regs[i],
                     area |-> Cardinality(regs[i]) * PixelAreaM2(meta),
                     area_m2 |-> Null]]]

\* ----------------------------------------------------------- Area Calculator
\* faulty variant of compute_area_ha: an empty feature set returned as it came
compute_area_ha_NoColumn(gdf) ==
    IF gdf.rows = <<>>
    THEN gdf
    ELSE [gdf EXCEPT
            !.columns = @ \cup {"area_ha"},
            !.rows = [i \in 1..Len(gdf.rows) |->
                        [gdf.rows[i] EXCEPT !.area_m2 =
                            IF gdf.crs.is_geographic
                            THEN Cardinality(gdf.rows[i].cells)
                                    * gdf.crs.utm_cell_m2
                            ELSE gdf.rows[i].area]]]

\* A geographic CRS is reprojected to the estimated UTM zone, where a grid
\* cell covers crs.utm_cell_m2; a projected CRS uses the geometry as it is.
compute_area_ha(gdf) ==
    IF gdf.rows = <<>>
    THEN [gdf EXCEPT !.columns = @ \cup {"area_ha"}]
    ELSE [gdf EXCEPT
            !.columns = @ \cup {"area_ha"},
            !.rows = [i \in 1..Len(gdf.rows) |->
                        [gdf.rows[i] EXCEPT !.area_m2 =
                            IF gdf.crs.is_geographic
                            THEN Cardinality(gdf.rows[i].cells)
                                    * gdf.crs.utm_cell_m2
                            ELSE gdf.rows[i].area]]]

\* faulty variant of AreaInRange: the minimum area taken as exclusive
AreaInRange_Strict(f, proc) ==
    f.area_m2 > proc.min_area_m2 /\ f.area_m2 <= proc.max_area_m2

\* gdf[(gdf["area_ha"] >= min_area_ha) & (gdf["area_ha"] <= max_area_ha)]
AreaInRange(f, proc) ==
    f.area_m2 >= proc.min_area_m2 /\ f.area_m2 <= proc.max_area_m2

AreaFilter(gdf, proc) ==
    [gdf EXCEPT !.rows = SelectSeq(gdf.rows, LAMBDA f : AreaInRange(f, proc))]

\* ------------------------------------------------------------ Layer Processor
OutPath(name) == name \o "_polygons"

\* Python's None as a return value; a returned tuple is never empty
None == <<>>

\* process_index_to_vectors: its locals when it returns, `ret` being the value
\* returned and `wrote` the files it wrote. The filter of line 82 reads the
\* area_ha column: without it the call raises KeyError (`raised`).
process_index_to_vectors(name, arr, meta, val_range, proc) ==
    LET thresholded == ThresholdMask(arr, val_range)
        mask == binary_morphology(thresholded, proc.morph_open_radius,
                                  proc.morph_close_radius)
        lab == Label(mask)
        min_pixels == MinPixels(proc, meta)
        clean == SizeFilter(lab.labeled, lab.n, min_pixels)
        polygons == raster_to_polygons(clean, meta)
        with_area == compute_area_ha(polygons)
        raised == "area_ha" \notin with_area.columns
        gdf == IF raised THEN with_area ELSE AreaFilter(with_area, proc)
    IN [name |-> name,
        raised |-> raised,
        thresholded |-> thresholded,
        mask |-> mask,
        labeled |-> lab.labeled,
        n |-> lab.n,
        min_pixels |-> min_pixels,
        clean |-> clean,
        polygons |-> polygons,
        with_area |-> with_area,
        gdf |-> gdf,
        stage |-> "complete",
        ret |-> IF raised \/ gdf.rows = <<>> THEN None
                ELSE <<OutPath(name), gdf>>,
        wrote |-> IF raised \/ gdf.rows = <<>> THEN {} ELSE {OutPath(name)}]

\* ---------------------------------------------------------------- state
VARIABLES
    pc,        \* position of the operation under way
    rasters,   \* run: the three index rasters on disk (data, transform, crs)
    proc,      \* cfg["processing"]: ranges, radii, area bounds
    call,      \* process_index_to_vectors called directly: its arguments
    arrs,      \* run: ndvi, gndvi, evi2 as read
    meta,      \* run: the meta of the NDVI raster, the only one kept
    frame,     \* locals of the latest process_index_to_vectors / run tail
    combined,  \* run: the combined mask
    results,   \* run: the results dict, as a set of <<key, path>>
    files,     \* vector files written so far
    minput,    \* binary_morphology: the mask and radii it is applied to
    mout,      \* binary_morphology: its latest result
    passes     \* binary_morphology: how many times it has been applied

vars == <<pc, rasters, proc, call, arrs, meta, frame, combined, results,
          files, minput, mout, passes>>

Layers == {"NDVI", "GNDVI", "EVI2"}

\* no call has been made yet
NoFrame == [stage |-> "none"]

\* process_index_to_vectors is not called directly
NoCall == [name |-> "none"]

\* transform coefficients a (x scale) and e (y scale, negative: north up)
Transforms == {[a |-> 1, e |-> -1], [a |-> 2, e |-> -1]}

Projected == [is_geographic |-> FALSE, utm_cell_m2 |-> 0]
Geographic == [is_geographic |-> TRUE, utm_cell_m2 |-> 2]

\* the georeferencings a raster is given: a transform and a CRS
GeoRefs == {<<[a |-> 1, e |-> -1], Projected>>,
            <<[a |-> 2, e |-> -1], Projected>>,
            <<[a |-> 1, e |-> -1], Geographic>>}

Radii == 0..MaxRadius
AreasM2 == 0..MaxAreaM2
Ranges == (0..MaxVal) \X (0..MaxVal)

MkProc(rn, rg, re, o, c, mn, mx) ==
    [range |-> [NDVI |-> rn, GNDVI |-> rg, EVI2 |-> re],
     morph_open_radius |-> o, morph_close_radius |-> c,
     min_area_m2 |-> mn, max_area_m2 |-> mx]

\* ------------------------------------------------- binary_morphology alone
MorphShapes == {<<2, 3>>, <<3, 3>>}

InitMorph ==
    /\ pc = "morph"
    /\ \E shape \in MorphShapes :
       \E m \in [Cells(shape) -> BOOLEAN] :
       \E o \in Radii, c \in Radii :
            minput = [mask |-> m, open_radius |-> o, close_radius |-> c]
    /\ mout = minput.mask
    /\ passes = 0
    /\ rasters = Null /\ proc = Null /\ call = NoCall /\ arrs = Null
    /\ meta = Null /\ frame = NoFrame /\ combined = Null
    /\ results = {} /\ files = {}

\* out = binary_morphology(out, o, c), applied to its own result
ApplyMorphology ==
    /\ pc = "morph"
    /\ passes < 2
    /\ mout' = binary_morphology(mout, minput.open_radius, minput.close_radius)
    /\ passes' = passes + 1
    /\ UNCHANGED <<pc, minput, rasters, proc, call, arrs, meta, frame,
                   combined, results, files>>

NextMorph == ApplyMorphology

SpecMorph == InitMorph /\ [][NextMorph]_vars

\* ------------------------------- binary_morphology under growing open radii
\* A grid that holds the largest disk whole, and on it the masks made of two
\* disk-shaped blobs: one at the centre of the grid, one on its middle row
\* or its main diagonal.
OpenSide == 2 * MaxOpenRadius + 1

OpenCentre == <<MaxOpenRadius + 1, MaxOpenRadius + 1>>

OpenCentres ==
    {<<k, k>> : k \in 1..OpenSide} \cup {<<OpenCentre[1], k>> : k \in 1..OpenSide}

Blob(centre, radius) ==
    [c \in Cells(<<OpenSide, OpenSide>>) |->
        <<c[1] - centre[1], c[2] - centre[2]>> \in disk(radius)]

InitOpen ==
    /\ pc = "morph"
    /\ \E c2 \in OpenCentres :
       \E r1 \in 0..MaxOpenRadius, r2 \in 0..MaxOpenRadius :
       \E o \in 0..MaxOpenRadius, c \in Radii :
            minput = [mask |-> [x \in Cells(<<OpenSide, OpenSide>>) |->
                                    Blob(OpenCentre, r1)[x] \/ Blob(c2, r2)[x]],
                      open_radius |-> o, close_radius |-> c]
    /\ mout = minput.mask
    /\ passes = 0
    /\ rasters = Null /\ proc = Null /\ call = NoCall /\ arrs = Null
    /\ meta = Null /\ frame = NoFrame /\ combined = Null
    /\ results = {} /\ files = {}

SpecOpen == InitOpen /\ [][NextMorph]_vars

\* --------------------------------------- process_index_to_vectors alone
\* Two families of arguments: every sample value against every range on a
\* two-cell grid, and every two-level raster on the larger grids.
LayerShapes == (1..3) \X (1..MaxCols)

InitLayerValues ==
    \E arr \in [Cells(<<1, 2>>) -> Values] :
    \E r \in Ranges :
        /\ call = [name |-> "NDVI", arr |-> arr, val_range |-> r,
                   meta |-> [transform |-> [a |-> 1, e |-> -1],
                             crs |-> Projected]]
        /\ proc = MkProc(r, r, r, 0, 0, 0, MaxAreaM2)

InitLayerShapes ==
    \E shape \in LayerShapes :
    \E arr \in [Cells(shape) -> {0, 1}] :
    \E g \in GeoRefs :
    \E r \in {0, MaxRadius}, mn \in AreasM2, mx \in AreasM2 :
        /\ call = [name |-> "NDVI", arr |-> arr, val_range |-> <<1, 1>>,
                   meta |-> [transform |-> g[1], crs |-> g[2]]]
        /\ proc = MkProc(<<1, 1>>, <<1, 1>>, <<1, 1>>, r, r, mn, mx)

InitLayer ==
    /\ pc = "call"
    /\ (InitLayerValues \/ InitLayerShapes)
    /\ frame = NoFrame /\ files = {} /\ results = {}
    /\ rasters = Null /\ arrs = Null /\ meta = Null /\ combined = Null
    /\ minput = Null /\ mout = Null /\ passes = 0

ProcessIndexToVectors ==
    /\ pc = "call"
    /\ frame' = process_index_to_vectors(call.name, call.arr, call.meta,
                                         call.val_range, proc)
    /\ files' = files \cup frame'.wrote
    /\ pc' = IF frame'.raised THEN "error" ELSE "returned"
    /\ UNCHANGED <<rasters, proc, call, arrs, meta, combined, results,
                   minput, mout, passes>>

\* ------------------------------------------------------------------- run()
\* numpy broadcasting of the operands of `&`: in each dimension the sizes
\* other than 1 must agree
Broadcastable(shapes) ==
    \A d \in 1..2 : Cardinality({s[d] : s \in shapes} \ {1}) <= 1

BroadcastShape(shapes) ==
    [d \in 1..2 |-> CHOOSE n \in {s[d] : s \in shapes} :
                        \A s \in shapes : s[d] <= n]

\* the cell of `arr` that cell c of the broadcast result reads
At(arr, c) ==
    LET shape == ShapeOf(arr)
    IN arr[<<IF shape[1] = 1 THEN 1 ELSE c[1],
             IF shape[2] = 1 THEN 1 ELSE c[2]>>]

\* faulty variant of CombinedMask: GNDVI compared against the NDVI range
CombinedMask_NdviRange(ndvi, gndvi, evi2, p) ==
    [c \in Cells(BroadcastShape({ShapeOf(ndvi), ShapeOf(gndvi), ShapeOf(evi2)}))
        |-> /\ GE(At(ndvi, c), p.range.NDVI[1])
            /\ LE(At(ndvi, c), p.range.NDVI[2])
            /\ GE(At(gndvi, c), p.range.NDVI[1])
            /\ LE(At(gndvi, c), p.range.NDVI[2])
            /\ GE(At(evi2, c), p.range.EVI2[1])
            /\ LE(At(evi2, c), p.range.EVI2[2])]

\* the six comparisons joined by `&`
CombinedMask(ndvi, gndvi, evi2, p) ==
    [c \in Cells(BroadcastShape({ShapeOf(ndvi), ShapeOf(gndvi), ShapeOf(evi2)}))
        |-> /\ GE(At(ndvi, c), p.range.NDVI[1])
            /\ LE(At(ndvi, c), p.range.NDVI[2])
            /\ GE(At(gndvi, c), p.range.GNDVI[1])
            /\ LE(At(gndvi, c), p.range.GNDVI[2])
            /\ GE(At(evi2, c), p.range.EVI2[1])
            /\ LE(At(evi2, c), p.range.EVI2[2])]

MkRaster(data, t, crs) == [data |-> data, transform |-> t, crs |-> crs]

RunRanges == {<<0, 0>>, <<1, 1>>, <<0, 1>>}

\* every sample value in every layer, each layer with a range of its own
InitRunValues ==
    \E dn \in [Cells(<<1, 1>>) -> Values],
       dg \in [Cells(<<1, 1>>) -> Values],
       de \in [Cells(<<1, 1>>) -> Values] :
    \E rn \in RunRanges, rg \in RunRanges, re \in RunRanges :
        /\ rasters = [NDVI |-> MkRaster(dn, [a |-> 1, e |-> -1], Projected),
                      GNDVI |-> MkRaster(dg, [a |-> 1, e |-> -1], Projected),
                      EVI2 |-> MkRaster(de, [a |-> 1, e |-> -1], Projected)]
        /\ proc = MkProc(rn, rg, re, 0, 0, 0, MaxAreaM2)

\* aligned, broadcastable and incompatible shapes of the three rasters
RunShapeTriples ==
    {[NDVI |-> <<1, 2>>, GNDVI |-> <<1, 2>>, EVI2 |-> <<1, 2>>],
     [NDVI |-> <<1, 2>>, GNDVI |-> <<1, 1>>, EVI2 |-> <<1, 2>>],
     [NDVI |-> <<1, 1>>, GNDVI |-> <<1, 2>>, EVI2 |-> <<1, 3>>]}

\* two-level rasters under every configuration, aligned or not
InitRunConfig ==
    \E sh \in RunShapeTriples :
    \E dn \in [Cells(sh.NDVI) -> {0, 1}],
       dg \in [Cells(sh.GNDVI) -> {0, 1}],
       de \in [Cells(sh.EVI2) -> {0, 1}] :
    \E g \in GeoRefs :
    \E r \in {0, MaxRadius}, mn \in AreasM2, mx \in AreasM2 :
        /\ rasters = [NDVI |-> MkRaster(dn, [a |-> 1, e |-> -1], Projected),
                      GNDVI |-> MkRaster(dg, g[1], Projected),
                      EVI2 |-> MkRaster(de, [a |-> 1, e |-> -1], g[2])]
        /\ proc = MkProc(<<1, 1>>, <<1, 1>>, <<1, 1>>, r, r, mn, mx)

\* aligned two-level rasters on a square grid
InitRunGrid ==
    \E dn \in [Cells(<<2, 2>>) -> {0, 1}],
       dg \in [Cells(<<2, 2>>) -> {0, 1}],
       v \in {0, 1} :
    \E t \in Transforms, mn \in AreasM2 :
        /\ rasters = [NDVI |-> MkRaster(dn, t, Projected),
                      GNDVI |-> MkRaster(dg, t, Projected),
                      EVI2 |-> MkRaster([c \in Cells(<<2, 2>>) |-> v], t,
                                        Projected)]
        /\ proc = MkProc(<<1, 1>>, <<1, 1>>, <<1, 1>>, 0, 0, mn, MaxAreaM2)

InitRun ==
    /\ pc = "start"
    /\ (InitRunValues \/ InitRunConfig \/ InitRunGrid)
    /\ call = NoCall /\ arrs = Null /\ meta = Null /\ combined = Null
    /\ frame = NoFrame /\ results = {} /\ files = {}
    /\ minput = Null /\ mout = Null /\ passes = 0

\* lines 96-109: the configuration and the three rasters are read; only the
\* NDVI raster's meta is kept
RunLoad ==
    /\ pc = "start"
    /\ arrs' = [l \in Layers |-> rasters[l].data]
    /\ meta' = [transform |-> rasters.NDVI.transform, crs |-> rasters.NDVI.crs]
    /\ results' = {}
    /\ pc' = "NDVI"
    /\ UNCHANGED <<rasters, proc, call, frame, combined, files,
                   minput, mout, passes>>

\* res = process_index_to_vectors(name, arr, meta, range, ...);
\* if res: results[name] = res[0]
CallFromRun(name) ==
    /\ frame' = process_index_to_vectors(name, arrs[name], meta,
                                         proc.range[name], proc)
    /\ files' = files \cup frame'.wrote
    /\ results' = IF frame'.ret # None
                  THEN results \cup {<<name, frame'.ret[1]>>}
                  ELSE results
    /\ UNCHANGED <<rasters, proc, call, arrs, meta, combined,
                   minput, mout, passes>>

\* lines 110-112
RunNDVI ==
    /\ pc = "NDVI"
    /\ CallFromRun("NDVI")
    /\ pc' = IF frame'.raised THEN "error" ELSE "GNDVI"

\* lines 114-116
RunGNDVI ==
    /\ pc = "GNDVI"
    /\ CallFromRun("GNDVI")
    /\ pc' = IF frame'.raised THEN "error" ELSE "EVI2"

\* lines 118-120
RunEVI2 ==
    /\ pc = "EVI2"
    /\ CallFromRun("EVI2")
    /\ pc' = IF frame'.raised THEN "error" ELSE "combine"

\* lines 123-125; operands that do not broadcast raise ValueError
RunCombine ==
    /\ pc = "combine"
    /\ IF Broadcastable({ShapeOf(arrs[l]) : l \in Layers})
       THEN /\ combined' = CombinedMask(arrs.NDVI, arrs.GNDVI, arrs.EVI2, proc)
            /\ pc' = "morphology"
       ELSE /\ pc' = "error"
            /\ UNCHANGED combined
    /\ UNCHANGED <<rasters, proc, call, arrs, meta, frame, results, files,
                   minput, mout, passes>>

\* line 126
RunMorphology ==
    /\ pc = "morphology"
    /\ combined' = binary_morphology(combined, proc.morph_open_radius,
                                     proc.morph_close_radius)
    /\ pc' = "label"
    /\ UNCHANGED <<rasters, proc, call, arrs, meta, frame, results, files,
                   minput, mout, passes>>

\* lines 128-135
RunSizeFilter ==
    /\ pc = "label"
    /\ LET lab == Label(combined)
           min_pixels == MinPixels(proc, meta)
       IN frame' = [name |-> "Palm_Combined",
                    stage |-> "filtered",
                    mask |-> combined,
                    labeled |-> lab.labeled,
                    n |-> lab.n,
                    min_pixels |-> min_pixels,
                    clean |-> SizeFilter(lab.labeled, lab.n, min_pixels)]
    /\ pc' = "final"
    /\ UNCHANGED <<rasters, proc, call, arrs, meta, combined, results, files,
                   minput, mout, passes>>

\* lines 137-150
RunFinal ==
    /\ pc = "final"
    /\ LET polygons == raster_to_polygons(frame.clean, meta)
           with_area == compute_area_ha(polygons)
           raised == "area_ha" \notin with_area.columns
           palm_gdf == IF raised THEN with_area
                       ELSE AreaFilter(with_area, proc)
       IN /\ frame' = [name |-> frame.name,
                       stage |-> "complete",
                       raised |-> raised,
                       mask |-> frame.mask,
                       labeled |-> frame.labeled,
                       n |-> frame.n,
                       min_pixels |-> frame.min_pixels,
                       clean |-> frame.clean,
                       polygons |-> polygons,
                       with_area |-> with_area,
                       gdf |-> palm_gdf]
          /\ IF raised \/ palm_gdf.rows = <<>>
             THEN UNCHANGED <<results, files>>
             ELSE /\ files' = files \cup {"Palm_Combined"}
                  /\ results' = results \cup
                                    {<<"Palm_Combined", "Palm_Combined">>}
          /\ pc' = IF raised THEN "error" ELSE "done"
    /\ UNCHANGED <<rasters, proc, call, arrs, meta, combined,
                   minput, mout, passes>>

\* ------------------------------------------------------ the two entry points
Init == InitLayer \/ InitRun

Next ==
    \/ ProcessIndexToVectors
    \/ RunLoad
    \/ RunNDVI
    \/ RunGNDVI
    \/ RunEVI2
    \/ RunCombine
    \/ RunMorphology
    \/ RunSizeFilter
    \/ RunFinal

Spec == Init /\ [][Next]_vars

\* ============================================================ properties
InRun == call.name = "none" /\ pc # "morph"

\* the latest frame is one of process_index_to_vectors
LayerFrame == frame.stage = "complete" /\ frame.name \in Layers

\* the latest frame has labelled and size-filtered its mask
LabelledFrame == frame.stage \in {"filtered", "complete"}

\* the arguments the latest process_index_to_vectors frame was called with
FrameArr == IF InRun THEN arrs[frame.name] ELSE call.arr
FrameRange == IF InRun THEN proc.range[frame.name] ELSE call.val_range
FrameMeta == IF InRun THEN meta ELSE call.meta

SameShape == \A l \in Layers : ShapeOf(arrs[l]) = ShapeOf(arrs.NDVI)

\* C1: in run(), for aligned layers, the combined mask before
\* binary_morphology is the elementwise AND of the three per-layer threshold
\* masks, each layer thresholded with its own range.
C1_CombinedIsAnd ==
    (pc = "morphology" /\ SameShape) =>
        combined = [c \in DOMAIN arrs.NDVI |->
                        /\ ThresholdMask(arrs.NDVI, proc.range.NDVI)[c]
                        /\ ThresholdMask(arrs.GNDVI, proc.range.GNDVI)[c]
                        /\ ThresholdMask(arrs.EVI2, proc.range.EVI2)[c]]

\* C1 witness: a combined mask with a 1-valued cell and a cell that two
\* layers accept and the third rejects.
C1_Witness ==
    /\ pc = "morphology" /\ SameShape
    /\ \E c \in DOMAIN combined : combined[c]
    /\ \E c \in DOMAIN combined :
        /\ ThresholdMask(arrs.NDVI, proc.range.NDVI)[c]
        /\ ThresholdMask(arrs.GNDVI, proc.range.GNDVI)[c]
        /\ ~ThresholdMask(arrs.EVI2, proc.range.EVI2)[c]
        /\ ~combined[c]

\* C2: the threshold mask of process_index_to_vectors has cell = 1 iff
\* lo <= value <= hi, both bounds inclusive, and a NaN cell is 0.
C2_ThresholdInclusive ==
    LayerFrame =>
        \A c \in DOMAIN FrameArr :
            frame.thresholded[c] <=>
                (FrameArr[c] # NaN /\ FrameArr[c] \in FrameRange[1]..FrameRange[2])

\* C2 witness: one raster with a cell equal to lo that is 1 and a NaN cell
\* that is 0, under a range with lo < hi.
C2_Witness ==
    /\ LayerFrame
    /\ FrameRange[1] < FrameRange[2]
    /\ \E c, d \in DOMAIN FrameArr :
        /\ FrameArr[c] = FrameRange[1] /\ frame.thresholded[c]
        /\ FrameArr[d] = NaN /\ ~frame.thresholded[d]

RowSet(gdf) == {gdf.rows[i] : i \in 1..Len(gdf.rows)}

\* C3: every feature of a final feature set (process_index_to_vectors or the
\* combined set of run) has min_area <= area <= max_area, and a polygon is
\* dropped only when its area is outside that inclusive range.
C3_AreaWithinRange ==
    frame.stage = "complete" =>
        /\ \A f \in RowSet(frame.gdf) :
                proc.min_area_m2 <= f.area_m2 /\ f.area_m2 <= proc.max_area_m2
        /\ \A f \in RowSet(frame.with_area) :
                (proc.min_area_m2 <= f.area_m2 /\ f.area_m2 <= proc.max_area_m2)
                    => f \in RowSet(frame.gdf)
        /\ RowSet(frame.gdf) \subseteq RowSet(frame.with_area)

\* C3 witness: a polygon of exactly the minimum area is retained, one of
\* exactly the maximum area is retained, and one above the maximum is dropped.
C3_Witness ==
    /\ frame.stage = "complete"
    /\ proc.min_area_m2 > 0
    /\ \E f \in RowSet(frame.gdf) : f.area_m2 = proc.min_area_m2
    /\ \E f \in RowSet(frame.gdf) : f.area_m2 = proc.max_area_m2
    /\ \E f \in RowSet(frame.with_area) : f.area_m2 > proc.max_area_m2

EdgeAdjacent(p, q) == Abs(p[1] - q[1]) + Abs(p[2] - q[2]) = 1

CornerAdjacent(p, q) == Abs(p[1] - q[1]) = 1 /\ Abs(p[2] - q[2]) = 1

\* the cells of `class` joined to S by chains of edge-adjacent cells
RECURSIVE EdgeReach(_, _)
EdgeReach(S, class) ==
    LET T == S \cup {q \in class : \E p \in S : EdgeAdjacent(p, q)}
    IN IF T = S THEN S ELSE EdgeReach(T, class)

LabelClass(labeled, i) == {c \in DOMAIN labeled : labeled[c] = i}

\* C4 as stated: regions are 8-connected, so two 1-valued cells that touch
\* at a corner receive the same label.
C4_EightConnected ==
    LabelledFrame =>
        \A p, q \in Ones(frame.mask) :
            CornerAdjacent(p, q) => frame.labeled[p] = frame.labeled[q]

\* C4 amended: ndi.label partitions the 1-valued cells into regions under
\* 4-connectivity: 0-valued cells get label 0, every 1-valued cell a label in
\* 1..n, every label is used, edge-adjacent 1-valued cells share a label, and
\* the cells of one label are joined by chains of edge-adjacent cells.
C4_FourConnected ==
    LabelledFrame =>
        /\ \A c \in DOMAIN frame.mask :
                IF frame.mask[c] THEN frame.labeled[c] \in 1..frame.n
                ELSE frame.labeled[c] = 0
        /\ \A i \in 1..frame.n : LabelClass(frame.labeled, i) # {}
        /\ \A p, q \in Ones(frame.mask) :
                EdgeAdjacent(p, q) => frame.labeled[p] = frame.labeled[q]
        /\ \A p \in Ones(frame.mask) :
                LET class == LabelClass(frame.labeled, frame.labeled[p])
                IN EdgeReach({p}, class) = class

\* C4 witness: a mask of two single pixels touching at a corner, labelled as
\* two regions.
C4_Witness ==
    /\ LabelledFrame
    /\ Count(frame.mask) = 2
    /\ \E p, q \in Ones(frame.mask) : CornerAdjacent(p, q)
    /\ frame.n = 2

\* C5: the polygons raster_to_polygons emits for a mask are as many as the
\* regions ndi.label finds in the same mask, and each polygon covers exactly
\* the cells of one labelled region.
C5_PolygonsMatchRegions ==
    frame.stage = "complete" =>
        LET lab == Label(frame.clean)
        IN /\ Len(frame.polygons.rows) = lab.n
           /\ \A i \in 1..Len(frame.polygons.rows) :
                \E j \in 1..lab.n :
                    frame.polygons.rows[i].cells = LabelClass(lab.labeled, j)
           /\ frame.clean = frame.mask =>
                Len(frame.polygons.rows) = frame.n

\* C5 witness: a vectorized mask, left whole by the size filter, in which two
\* regions touch at a corner and one region has edge-adjacent cells.
C5_Witness ==
    /\ frame.stage = "complete"
    /\ frame.clean = frame.mask
    /\ frame.n >= 2
    /\ \E p, q \in Ones(frame.clean) :
        CornerAdjacent(p, q) /\ frame.labeled[p] # frame.labeled[q]
    /\ \E p, q \in Ones(frame.clean) : EdgeAdjacent(p, q)

\* the regions of the labelled mask whose pixel count is at least k
RegionsAtLeast(k) ==
    [c \in DOMAIN frame.mask |->
        /\ frame.mask[c]
        /\ Cardinality(LabelClass(frame.labeled, frame.labeled[c])) >= k]

\* C6 as stated: the minimum pixel count is ceil(min_area_m2 / pixel_area_m2)
\* and exactly the regions with fewer pixels are zeroed.
C6_CeilMinPixels ==
    LabelledFrame =>
        LET pa == PixelAreaM2(FrameMeta)
            k == (proc.min_area_m2 + pa - 1) \div pa
        IN frame.min_pixels = k /\ frame.clean = RegionsAtLeast(k)

\* C6 amended: the minimum pixel count is min_area_m2 / pixel_area_m2
\* truncated to an integer (the largest k with k * pixel_area_m2 <=
\* min_area_m2), and exactly the regions with fewer pixels than that are
\* zeroed, every other region being kept whole at value 1.
C6_FloorMinPixels ==
    LabelledFrame =>
        LET pa == PixelAreaM2(FrameMeta)
        IN /\ frame.min_pixels * pa <= proc.min_area_m2
           /\ proc.min_area_m2 < (frame.min_pixels + 1) * pa
           /\ frame.clean = RegionsAtLeast(frame.min_pixels)

\* C6 witness: min_area_m2 / pixel_area_m2 is not an integer, and a region of
\* exactly the truncated count is kept while a smaller region is zeroed.
C6_Witness ==
    /\ LabelledFrame
    /\ frame.min_pixels * PixelAreaM2(FrameMeta) < proc.min_area_m2
    /\ \E c \in Ones(frame.clean) :
        Cardinality(LabelClass(frame.labeled, frame.labeled[c]))
            = frame.min_pixels

\* the layers run() has processed when it is at position pc
Processed ==
    CASE pc \in {"start", "NDVI"} -> {}
      [] pc = "GNDVI" -> {"NDVI"}
      [] pc = "EVI2" -> {"NDVI", "GNDVI"}
      [] OTHER -> Layers

\* C7: an empty outcome is never an error. An empty mask gives an empty
\* feature set carrying the CRS, compute_area_ha gives it an area_ha field and
\* nothing raises, process_index_to_vectors returns None and writes nothing,
\* and run() goes on: it raises only for operands that do not broadcast, and
\* its results hold exactly the processed layers that have features.
C7_EmptyIsNotAnError ==
    /\ frame.stage = "complete" =>
        /\ ~frame.raised
        /\ Ones(frame.clean) = {} =>
            /\ frame.polygons.rows = <<>>
            /\ frame.polygons.crs = FrameMeta.crs
            /\ frame.with_area.rows = <<>>
        /\ "area_ha" \in frame.with_area.columns
        /\ frame.with_area.crs = FrameMeta.crs
    /\ LayerFrame =>
        /\ frame.gdf.rows = <<>> <=> frame.ret = None
        /\ frame.gdf.rows = <<>> => frame.wrote = {}
    /\ pc = "error" =>
        InRun /\ ~Broadcastable({ShapeOf(arrs[l]) : l \in Layers})
    /\ (InRun /\ pc \in {"combine", "done"}) =>
        \A l \in Layers :
            <<l, OutPath(l)>> \in results <=>
                /\ l \in Processed
                /\ process_index_to_vectors(l, arrs[l], meta, proc.range[l],
                                            proc).gdf.rows # <<>>

\* C7 witness: run() has returned; NDVI gave no feature, GNDVI gave some, and
\* the combined intersection was empty.
C7_Witness ==
    /\ pc = "done"
    /\ <<"NDVI", OutPath("NDVI")>> \notin results
    /\ <<"GNDVI", OutPath("GNDVI")>> \in results
    /\ Ones(frame.clean) = {}
    /\ frame.gdf.rows = <<>>
    /\ "area_ha" \in frame.gdf.columns

Misaligned ==
    \E l \in Layers :
        \/ ShapeOf(rasters[l].data) # ShapeOf(rasters.NDVI.data)
        \/ rasters[l].transform # rasters.NDVI.transform
        \/ rasters[l].crs # rasters.NDVI.crs

\* C8: a configuration error is fatal: when the layers are misaligned or
\* max_area < min_area, run() raises before any output is produced; it writes
\* no file, records no result and does not reach the combined path.
C8_ConfigErrorIsFatal ==
    (InRun /\ (Misaligned \/ proc.max_area_m2 < proc.min_area_m2)) =>
        /\ files = {}
        /\ results = {}
        /\ pc \notin {"morphology", "label", "final", "done"}

\* C9: binary_morphology is idempotent for fixed radii: applying it to its
\* own result (second pass) gives the result of the first pass, for every
\* mask, masks with 1-valued cells on the grid border included.
C9_MorphologyIdempotent ==
    (pc = "morph" /\ passes = 2) =>
        mout = binary_morphology(minput.mask, minput.open_radius,
                                 minput.close_radius)

\* C10: for a fixed mask and open_radius, a larger close_radius never gives
\* fewer 1-valued cells: the result at close_radius has at least as many as
\* the result at every c1 <= close_radius (c1 = 0 skips the closing).
C10_ClosingMonotone ==
    (pc = "morph" /\ passes = 1) =>
        \A c1 \in 0..minput.close_radius :
            Count(mout) >=
                Count(binary_morphology(minput.mask, minput.open_radius, c1))

\* C11 as stated: for a fixed mask and close_radius, a larger open_radius
\* never gives more 1-valued cells: the result at open_radius has at most as
\* many as the result at every o1 <= open_radius (o1 = 0 skips the opening).
C11_OpeningMonotone ==
    (pc = "morph" /\ passes = 1) =>
        \A o1 \in 0..minput.open_radius :
            Count(mout) <=
                Count(binary_morphology(minput.mask, o1, minput.close_radius))

\* C11 amended: the same comparison for the pairs o1 <= o2 with o1 = 0 or
\* o2 <= 2, the radii whose disks are unions of translates of the smaller one.
C11_OpeningMonotoneUpToTwo ==
    (pc = "morph" /\ passes = 1) =>
        \A o1 \in 0..minput.open_radius :
            (o1 = 0 \/ minput.open_radius <= 2) =>
                Count(mout) <=
                    Count(binary_morphology(minput.mask, o1,
                                            minput.close_radius))

\* C11 witness: opening with radius 2 leaves some cells and strictly fewer
\* than opening with radius 1 does.
C11_Witness ==
    /\ pc = "morph" /\ passes = 1
    /\ minput.open_radius = 2
    /\ Count(mout) > 0
    /\ Count(mout) <
            Count(binary_morphology(minput.mask, 1, minput.close_radius))

\* C12: in a projected CRS the pixel-count pre-filter never changes the final
\* result: the final feature set equals the one obtained by vectorizing the
\* cleaned mask without the size filter and applying only the
\* [min_area, max_area] filter.
C12_PrefilterChangesNothing ==
    (frame.stage = "complete" /\ ~FrameMeta.crs.is_geographic) =>
        frame.gdf =
            AreaFilter(compute_area_ha(raster_to_polygons(frame.mask,
                                                          FrameMeta)), proc)

\* C12 witness: in a projected CRS the pre-filter has zeroed a region of the
\* cleaned mask while another region has become a feature of the final set.
C12_Witness ==
    /\ frame.stage = "complete" /\ ~FrameMeta.crs.is_geographic
    /\ frame.clean # frame.mask
    /\ frame.gdf.rows # <<>>

====
